---- MODULE Spec2Model ----
(***************************************************************************)
(* Model of src/main.py: the shelter patrol-planning page and its routing  *)
(* step, solve_vrp.                                                        *)
(*                                                                         *)
(* Units.  A Location is <<latitude, longitude>> in whole degrees.  A cost *)
(* is int(distance * 100000).  route_distance holds total_distance in      *)
(* thousandths (total_distance = ObjectiveValue / 1000 is stored as the    *)
(* integer ObjectiveValue), route_time holds minutes in hundredths.        *)
(* A session value that is None is <<>>, a set value x is <<x>>.           *)
(***************************************************************************)
EXTENDS Integers, Sequences, FiniteSets

VARIABLES shelter_data, user_coords, shelter_selected, num_vehicles,
          route_distance, route_time, route_data, call

session == <<user_coords, shelter_selected, num_vehicles,
             route_distance, route_time, route_data>>
vars == <<shelter_data, user_coords, shelter_selected, num_vehicles,
          route_distance, route_time, route_data, call>>

(* ---------------------------- bounds and inputs ------------------------ *)

\* Largest slider value the model explores (the slider itself allows 25).
MaxVehicles == 2

SliderMax == 25

\* Fleet sizes of the documented three-shelter scenario.
ScenarioFleets == {3, 5}

DefaultOrigin == <<0, 0>>

\* Points the user can set as origin (number inputs or a map click).
Origins == {DefaultOrigin, <<1, 1>>}

\* Loaded shelter tables: the unit square and a straight line through the
\* default origin.
SquareTable ==
    << [name |-> "A", Latitude |-> 0, Longitude |-> 1],
       [name |-> "B", Latitude |-> 1, Longitude |-> 0],
       [name |-> "C", Latitude |-> 1, Longitude |-> 1] >>

LineTable ==
    << [name |-> "P", Latitude |-> 1, Longitude |-> 2],
       [name |-> "Q", Latitude |-> 2, Longitude |-> 4] >>

Tables == {SquareTable, LineTable}

None == <<>>

Some(x) == <<x>>

(* ------------------------------ helpers -------------------------------- *)

RECURSIVE SumOver(_, _)
SumOver(S, f) ==
    IF S = {} THEN 0
    ELSE LET x == CHOOSE y \in S : TRUE
         IN f[x] + SumOver(S \ {x}, f)

RECURSIVE SelectRows(_, _)
\* shelter_data[shelter_data["name"].isin(selected)], row order kept
SelectRows(rows, selected) ==
    IF rows = <<>> THEN <<>>
    ELSE (IF Head(rows).name \in selected THEN <<Head(rows)>> ELSE <<>>)
         \o SelectRows(Tail(rows), selected)

(* --------------------------- distance model ---------------------------- *)

ISqrt(n) == CHOOSE r \in 0..n : r * r <= n /\ (r + 1) * (r + 1) > n

RECURSIVE SqrtDigits(_, _, _)
\* decimal long-hand square root: k more digits of root, remainder rem
SqrtDigits(root, rem, k) ==
    IF k = 0 THEN root
    ELSE LET r100 == rem * 100
             x == CHOOSE d \in 0..9 :
                     /\ (20 * root + d) * d <= r100
                     /\ (d = 9 \/ (20 * root + d + 1) * (d + 1) > r100)
         IN SqrtDigits(10 * root + x, r100 - (20 * root + x) * x, k - 1)

\* number of decimal digits of the scale factor 100000
ScaleDigits == 5

\* mutant: the square root is forgotten
Dist_Squared(a, b) ==
    LET dx == a[1] - b[1]
        dy == a[2] - b[2]
    IN (dx * dx + dy * dy) * 100000

\* int(Point(a).distance(Point(b)) * 100000)
Dist(a, b) ==
    LET dx == a[1] - b[1]
        dy == a[2] - b[2]
        d2 == dx * dx + dy * dy
        w  == ISqrt(d2)
    IN SqrtDigits(w, d2 - w * w, ScaleDigits)

\* mutant: only the cells above the diagonal are filled
DistanceMatrix_Upper(locations) ==
    [i \in 1..Len(locations) |->
        [j \in 1..Len(locations) |->
            IF i < j THEN Dist(locations[i], locations[j]) ELSE 0]]

\* np.zeros((n, n), dtype=int) with every cell i != j filled
DistanceMatrix(locations) ==
    [i \in 1..Len(locations) |->
        [j \in 1..Len(locations) |->
            IF i # j THEN Dist(locations[i], locations[j]) ELSE 0]]

Locations(start_point, shelters) ==
    <<start_point>> \o
    [k \in 1..Len(shelters) |-> <<shelters[k].Latitude, shelters[k].Longitude>>]

(* ------------------- routing index manager and solver ------------------ *)

\* RoutingIndexManager(num_locations, num_vehicles, 0): node i has index i,
\* vehicle 0 starts at index 0, vehicle v >= 1 at num_locations + v - 1, and
\* vehicle v ends at num_locations + num_vehicles - 1 + v.
Start(vehicle_id, num_locations) ==
    IF vehicle_id = 0 THEN 0 ELSE num_locations + vehicle_id - 1

End(vehicle_id, num_locations, V) == num_locations + V - 1 + vehicle_id

IsEnd(index, num_locations, V) == index >= num_locations + V - 1

IndexToNode(index, num_locations) ==
    IF index < num_locations THEN index ELSE 0

RECURSIVE Perms(_)
Perms(S) ==
    IF S = {} THEN {<<>>}
    ELSE UNION {{<<x>> \o p : p \in Perms(S \ {x})} : x \in S}

RECURSIVE Assignments(_, _)
\* every way to hand the nodes S to v vehicles, each node to one vehicle at
\* one position (the routing model has no disjunction: no node is optional)
Assignments(S, v) ==
    IF v = 0 THEN (IF S = {} THEN {<<>>} ELSE {})
    ELSE UNION {UNION {{<<p>> \o rest : rest \in Assignments(S \ T, v - 1)}
                       : p \in Perms(T)}
                : T \in SUBSET S}

\* the values of the NextVar variables of an assignment
NextOf(a, num_locations, V) ==
    [index \in 0..(num_locations + V - 2) |->
        IF index = 0 \/ index >= num_locations
        THEN LET v == IF index = 0 THEN 0 ELSE index - num_locations + 1
                 p == a[v + 1]
             IN IF p = <<>> THEN End(v, num_locations, V) ELSE p[1]
        ELSE LET v == CHOOSE w \in 0..(V - 1) :
                          \E i \in 1..Len(a[w + 1]) : a[w + 1][i] = index
                 p == a[v + 1]
                 i == CHOOSE k \in 1..Len(p) : p[k] = index
             IN IF i = Len(p) THEN End(v, num_locations, V) ELSE p[i + 1]]

\* the solutions routing.SolveWithParameters can return
Solutions(num_locations, V) ==
    {NextOf(a, num_locations, V) : a \in Assignments(1..(num_locations - 1), V)}

FixedCost == 1000

distance_callback(distance_matrix, num_locations, from_index, to_index) ==
    distance_matrix[IndexToNode(from_index, num_locations) + 1]
                   [IndexToNode(to_index, num_locations) + 1]

\* solution.ObjectiveValue(): the arc costs plus the fixed cost of every
\* vehicle whose route is not empty
ObjectiveValue(solution, distance_matrix, num_locations, V) ==
    LET arc == [index \in DOMAIN solution |->
                  distance_callback(distance_matrix, num_locations,
                                    index, solution[index])]
        used == {v \in 0..(V - 1) :
                   ~IsEnd(solution[Start(v, num_locations)], num_locations, V)}
    IN SumOver(DOMAIN solution, arc) + FixedCost * Cardinality(used)

\* the least objective value over all solutions
MinObjective(distance_matrix, num_locations, V) ==
    LET costs == {ObjectiveValue(s, distance_matrix, num_locations, V) :
                    s \in Solutions(num_locations, V)}
    IN CHOOSE c \in costs : \A d \in costs : c <= d

\* the solutions the search returns once it has converged
Optimal(distance_matrix, num_locations, V) ==
    LET S == Solutions(num_locations, V)
        least == MinObjective(distance_matrix, num_locations, V)
    IN {s \in S : ObjectiveValue(s, distance_matrix, num_locations, V) = least}

(* --------------------------- solution extractor ------------------------ *)

RECURSIVE Walk(_, _, _, _)
\* while not routing.IsEnd(index): route.append(locations[node]); index = next
Walk(solution, index, locations, V) ==
    IF IsEnd(index, Len(locations), V) THEN <<>>
    ELSE <<locations[IndexToNode(index, Len(locations)) + 1]>>
         \o Walk(solution, solution[index], locations, V)

\* mutant: the return to the start point is not appended
ExtractRoute_NoReturn(solution, locations, V, vehicle_id, start_point) ==
    Walk(solution, Start(vehicle_id, Len(locations)), locations, V)

\* mutant: the walk begins at the first visit instead of the start index
ExtractRoute_SkipStart(solution, locations, V, vehicle_id, start_point) ==
    Walk(solution, solution[Start(vehicle_id, Len(locations))], locations, V)
    \o <<start_point>>

ExtractRoute(solution, locations, V, vehicle_id, start_point) ==
    Walk(solution, Start(vehicle_id, Len(locations)), locations, V)
    \o <<start_point>>

(* --------------------------- metrics aggregator ------------------------ *)

StopMinutes == 60

\* 0.667, in thousandths
SpeedMilli == 667

\* mutant: only the appended return is excluded
NumStops_OffByOne(route) == Len(route) - 1

NumStops(route) == Len(route) - 2

\* round(total_distance / 0.667, 2), in hundredths of a minute; the quotient
\* is never half-way between two hundredths (200 * d = 667 * odd has no
\* solution), so rounding is to the nearest
TravelTime(total_distance) == (200 * total_distance + SpeedMilli) \div (2 * SpeedMilli)

TotalStopTime(routes) ==
    SumOver(DOMAIN routes, [k \in DOMAIN routes |-> NumStops(routes[k]) * StopMinutes])

(* ------------------------------ the page ------------------------------- *)

\* the outcome of the latest solve_vrp call and, when it stored a solution,
\* its arguments and locals
NoCall ==
    [result |-> "none", reported |-> "none", start_point |-> DefaultOrigin,
     shelters |-> <<>>, num_vehicles |-> 1, locations |-> <<>>,
     distance_matrix |-> <<>>, solution |-> <<>>]

Init ==
    /\ shelter_data = LineTable
    /\ user_coords = DefaultOrigin
    /\ shelter_selected = {}
    /\ num_vehicles = 1
    /\ route_distance = None
    /\ route_time = None
    /\ route_data = <<>>
    /\ call = NoCall

SetOrigin(lat_input, lon_input) ==
    /\ user_coords' = <<lat_input, lon_input>>
    /\ UNCHANGED <<shelter_data, shelter_selected, num_vehicles,
                   route_distance, route_time, route_data, call>>

ClickMap(last_clicked) ==
    /\ user_coords' = last_clicked
    /\ UNCHANGED <<shelter_data, shelter_selected, num_vehicles,
                   route_distance, route_time, route_data, call>>

Checkbox(shelter_name, new_checked) ==
    /\ shelter_selected' = IF new_checked
                           THEN shelter_selected \cup {shelter_name}
                           ELSE shelter_selected \ {shelter_name}
    /\ UNCHANGED <<shelter_data, user_coords, num_vehicles,
                   route_distance, route_time, route_data, call>>

Slider(value) ==
    /\ value \in 1..SliderMax
    /\ num_vehicles' = value
    /\ UNCHANGED <<shelter_data, user_coords, shelter_selected,
                   route_distance, route_time, route_data, call>>

\* the rows handed to solve_vrp
SelectedShelters == SelectRows(shelter_data, shelter_selected)

\* mutant: an empty request also clears the stored routes
SolveEmpty_Clears ==
    /\ SelectedShelters = <<>>
    /\ call' = [NoCall EXCEPT !.result = "empty", !.reported = "warning"]
    /\ route_data' = <<>>
    /\ UNCHANGED <<shelter_data, user_coords, shelter_selected, num_vehicles,
                   route_distance, route_time>>

\* shelters.empty: warn and return None
SolveEmpty ==
    /\ SelectedShelters = <<>>
    /\ call' = [NoCall EXCEPT !.result = "empty", !.reported = "warning"]
    /\ UNCHANGED <<shelter_data, user_coords, shelter_selected, num_vehicles,
                   route_distance, route_time, route_data>>

\* the call record of a request whose search returned a solution
Solved(solution) ==
    LET locations == Locations(user_coords, SelectedShelters)
    IN [result |-> "solved", reported |-> "none", start_point |-> user_coords,
        shelters |-> SelectedShelters, num_vehicles |-> num_vehicles,
        locations |-> locations,
        distance_matrix |-> DistanceMatrix(locations),
        solution |-> solution]

\* SolveWithParameters returned nothing: the if-block is skipped
SolveNoSolution ==
    /\ SelectedShelters # <<>>
    /\ call' = [NoCall EXCEPT !.result = "nosolution"]
    /\ UNCHANGED <<shelter_data, user_coords, shelter_selected, num_vehicles,
                   route_distance, route_time, route_data>>

\* the if-solution block: routes, distance and time are stored
Store(solution) ==
    LET c == Solved(solution)
        total_distance == ObjectiveValue(solution, c.distance_matrix,
                                         Len(c.locations), num_vehicles)
        routes == [k \in 1..num_vehicles |->
                     ExtractRoute(solution, c.locations, num_vehicles,
                                  k - 1, user_coords)]
    IN /\ call' = c
       /\ route_data' = routes
       /\ route_distance' = Some(total_distance)
       /\ route_time' = Some(TravelTime(total_distance)
                             + 100 * TotalStopTime(routes))
       /\ UNCHANGED <<shelter_data, user_coords, shelter_selected, num_vehicles>>

\* the search returned some solution (the best found within 30 seconds)
SolveSolution ==
    /\ SelectedShelters # <<>>
    /\ \E solution \in Solutions(Len(SelectedShelters) + 1, num_vehicles) :
          Store(solution)

\* the search converged: the solution returned has the least objective
SolveConverged ==
    /\ SelectedShelters # <<>>
    /\ \E solution \in Optimal(DistanceMatrix(Locations(user_coords, SelectedShelters)),
                               Len(SelectedShelters) + 1, num_vehicles) :
          Store(solution)

Widgets(Fleet) ==
    \/ \E p \in Origins : SetOrigin(p[1], p[2])
    \/ \E p \in Origins : ClickMap(p)
    \/ \E k \in 1..Len(shelter_data), b \in BOOLEAN :
          Checkbox(shelter_data[k].name, b)
    \/ \E v \in Fleet : Slider(v)

Next ==
    \/ Widgets(1..MaxVehicles)
    \/ SolveEmpty
    \/ SolveNoSolution
    \/ SolveSolution

Spec == Init /\ [][Next]_vars

\* One request with a converged search: any table, origin, selection and fleet
\* the widgets can set up, then the button.
InitRequest ==
    /\ shelter_data \in Tables
    /\ user_coords \in Origins
    /\ shelter_selected \in SUBSET {shelter_data[k].name : k \in 1..Len(shelter_data)}
    /\ num_vehicles \in (1..MaxVehicles) \cup ScenarioFleets
    /\ route_distance = None
    /\ route_time = None
    /\ route_data = <<>>
    /\ call = NoCall

NextConverged ==
    \/ SolveEmpty
    \/ SolveConverged

SpecConverged == InitRequest /\ [][NextConverged]_vars

(* ------------------------------ properties ----------------------------- *)

Count(seq, x) == Cardinality({i \in DOMAIN seq : seq[i] = x})

\* a route without its first element and without its appended last element
Interior(route) == SubSeq(route, 2, Len(route) - 1)

Destinations(c) == SubSeq(c.locations, 2, Len(c.locations))

SolvedCall == call.result = "solved"

\* C1: after a successful solve the destination entries of all routes taken
\* together are exactly the destinations of the request, each as often as the
\* request holds it: none omitted, none repeated within or across routes.
C1_CoverageAndUniqueness ==
    SolvedCall =>
        \A p \in {call.locations[i] : i \in DOMAIN call.locations} :
            SumOver(DOMAIN route_data,
                    [k \in DOMAIN route_data |-> Count(Interior(route_data[k]), p)])
            = Count(Destinations(call), p)

\* two destinations served by two different vehicles
C1_Witness ==
    /\ SolvedCall
    /\ Len(call.shelters) = 2
    /\ Len(route_data) = 2
    /\ Len(route_data[1]) = 3
    /\ Len(route_data[2]) = 3

\* C2: after a successful solve there is one stored route per vehicle, each
\* starting and ending at the solve's start point; a vehicle that visits no
\* destination has the route [depot, depot].
C2_DepotAtBothEnds ==
    SolvedCall =>
        /\ Len(route_data) = call.num_vehicles
        /\ \A k \in DOMAIN route_data :
              LET route == route_data[k]
                  first == call.solution[Start(k - 1, Len(call.locations))]
              IN /\ Len(route) >= 2
                 /\ route[1] = call.start_point
                 /\ route[Len(route)] = call.start_point
                 /\ IsEnd(first, Len(call.locations), call.num_vehicles)
                      => route = <<call.start_point, call.start_point>>

\* a fleet of two with an idle vehicle, the origin moved since the solve
C2_Witness ==
    /\ SolvedCall
    /\ call.num_vehicles = 2
    /\ \E k \in DOMAIN route_data :
          route_data[k] = <<call.start_point, call.start_point>>
    /\ user_coords # call.start_point

\* the cost of the edges the stored routes traverse, from their coordinates
RouteEdgeSum ==
    SumOver(DOMAIN route_data,
            [k \in DOMAIN route_data |->
                SumOver(1..(Len(route_data[k]) - 1),
                        [i \in 1..(Len(route_data[k]) - 1) |->
                            Dist(route_data[k][i], route_data[k][i + 1])])])

\* C3: the reported total distance is the sum of the costs of the edges the
\* emitted routes traverse, divided by 1000, and nothing else.
C3_DistanceIsEdgeSum ==
    SolvedCall => route_distance = Some(RouteEdgeSum)

\* C4: a solve request with no destination warns, builds no cost matrix, runs
\* no search and writes none of route_data, route_distance, route_time.
C4_EmptyRequestWritesNothing ==
    [][(SelectedShelters = <<>> /\ call' # call) =>
          /\ call'.result = "empty"
          /\ call'.reported = "warning"
          /\ call'.distance_matrix = <<>>
          /\ call'.solution = <<>>
          /\ UNCHANGED <<route_data, route_distance, route_time>>]_vars

\* an empty request answered while the routes of an earlier solve are stored
C4_Witness ==
    /\ call.result = "empty"
    /\ call.reported = "warning"
    /\ route_data # <<>>
    /\ route_distance # None

\* C5: the routes and metrics exposed after the latest request come from that
\* request alone: after a request that stored nothing, nothing of an earlier
\* solve is exposed; after one that stored a solution, its routes are.
C5_LatestRequestOnly ==
    /\ call.result \in {"empty", "nosolution"} =>
          route_data = <<>> /\ route_distance = None /\ route_time = None
    /\ SolvedCall =>
          /\ Len(route_data) = call.num_vehicles
          /\ \A k \in DOMAIN route_data : route_data[k][1] = call.start_point

\* C6: a search without solution is reported as an error, unlike a success
\* (nothing reported) and unlike the empty-selection warning.
C6_NoSolutionReported ==
    call.result = "nosolution" => call.reported \notin {"none", "warning"}

ScenarioSolved(V) ==
    /\ SolvedCall
    /\ call.start_point = <<0, 0>>
    /\ call.shelters = SquareTable
    /\ call.num_vehicles = V

DepotOnly == {k \in DOMAIN route_data :
                route_data[k] = <<call.start_point, call.start_point>>}

\* C7 as stated: in the square scenario the least-cost solution gives each of
\* 3 vehicles one destination, and leaves exactly 2 of 5 vehicles idle.
C7_OneDestinationEach ==
    /\ ScenarioSolved(3) => \A k \in DOMAIN route_data : Len(route_data[k]) = 3
    /\ ScenarioSolved(5) => Cardinality(DepotOnly) = 2

\* C7 amended: in the square scenario the least-cost solution sends a single
\* vehicle to all three destinations; the other 2 of 3, or 4 of 5, vehicles
\* get the depot-only route.
C7_SingleVehicleServesAll ==
    \A V \in ScenarioFleets :
        ScenarioSolved(V) =>
            /\ Cardinality(DepotOnly) = V - 1
            /\ \E k \in DOMAIN route_data : Len(route_data[k]) = 5

C7_Witness ==
    /\ ScenarioSolved(5)
    /\ Len(route_data) = 5
    /\ Len(route_data[2]) = 5

\* C8: after a successful solve with N destinations the stops of all routes
\* (len(route) - 2 each) sum to N, and route_time is the reported distance
\* divided by 0.667, rounded to hundredths, plus 60 minutes per destination.
C8_StopsAndTime ==
    SolvedCall =>
        LET N == Len(call.shelters)
            stops == SumOver(DOMAIN route_data,
                             [k \in DOMAIN route_data |-> Len(route_data[k]) - 2])
            travel == route_time[1] - 100 * 60 * N
            d == route_distance[1]
        IN /\ stops = N
           /\ route_time # None
           /\ 2 * (667 * travel - 100 * d) <= 667
           /\ 2 * (100 * d - 667 * travel) <= 667

\* two destinations on one vehicle, the other vehicle idle
C8_Witness ==
    /\ SolvedCall
    /\ Len(call.shelters) = 2
    /\ \E k \in DOMAIN route_data : Len(route_data[k]) = 4
    /\ \E k \in DOMAIN route_data : Len(route_data[k]) = 2

\* int(sqrt(d2) * 100000) for the squared distances of the modelled points
Truncated(d2) ==
    CASE d2 = 0 -> 0
      [] d2 = 1 -> 100000
      [] d2 = 2 -> 141421
      [] d2 = 5 -> 223606
      [] d2 = 10 -> 316227
      [] d2 = 20 -> 447213

\* C9: the cost matrix has non-negative integer entries, a zero diagonal, is
\* symmetric, and off the diagonal holds the planar distance times 100000,
\* truncated.
C9_CostMatrix ==
    SolvedCall =>
        LET m == call.distance_matrix
            l == call.locations
        IN /\ DOMAIN m = 1..Len(l)
           /\ \A i, j \in 1..Len(l) :
                 /\ m[i][j] \in Nat
                 /\ m[i][i] = 0
                 /\ m[i][j] = m[j][i]
                 /\ i # j =>
                      m[i][j] = Truncated((l[i][1] - l[j][1]) * (l[i][1] - l[j][1])
                                          + (l[i][2] - l[j][2]) * (l[i][2] - l[j][2]))

\* a matrix over four locations with a truncated irrational entry
C9_Witness ==
    /\ SolvedCall
    /\ Len(call.locations) = 4
    /\ call.distance_matrix[1][4] = 141421
    /\ call.distance_matrix[4][1] = 141421

\* the total distance reported for a converged solve of the rows
OptimalDistance(start_point, rows, V) ==
    MinObjective(DistanceMatrix(Locations(start_point, rows)), Len(rows) + 1, V)

\* the non-empty proper sub-selections of the latest request
SubRequests ==
    {SelectRows(call.shelters, T) :
        T \in SUBSET {call.shelters[k].name : k \in DOMAIN call.shelters}}
    \ {<<>>, call.shelters}

\* C10 as stated: for the same origin and fleet, the converged total distance
\* of a destination set is never smaller than that of any of its subsets.
C10_Monotone ==
    SolvedCall =>
        \A rows \in SubRequests :
            OptimalDistance(call.start_point, rows, call.num_vehicles)
            <= route_distance[1]

\* C10 amended: it is never smaller by more than one cost unit (0.001 km) per
\* destination added.
C10_MonotoneUpToTruncation ==
    SolvedCall =>
        \A rows \in SubRequests :
            OptimalDistance(call.start_point, rows, call.num_vehicles)
            <= route_distance[1] + (Len(call.shelters) - Len(rows))

\* a destination added on the way to another one made the total one unit less
C10_Witness ==
    /\ SolvedCall
    /\ \E rows \in SubRequests :
          OptimalDistance(call.start_point, rows, call.num_vehicles)
          = route_distance[1] + 1

====
